---- MODULE Spec2Model ----
(***************************************************************************)
(* SMD resistor code decoder: decode() and format_ohms() of                *)
(* smdresistor/decoder.py, driven the way smdresistor/cli.py main() drives *)
(* them (decode the code, then print format_ohms(result.ohms), or print    *)
(* the error).                                                             *)
(*                                                                         *)
(* Strings are sequences of one-character strings.  The two non-ASCII      *)
(* characters of the unit suffixes are written as the tokens "Ohm" (the    *)
(* omega sign) and "micro" (the micro sign).                               *)
(*                                                                         *)
(* A Python float is modelled as the exact decimal n * 10^e, kept in the   *)
(* normal form where n has no trailing zero (zero is n = 0, e = 0).  Every *)
(* value decode() can produce within the bounds has at most 8 significant  *)
(* digits, far fewer than the 15 a double holds; where the binary value    *)
(* decides a rounding tie of the "g" format the model takes both outcomes. *)
(***************************************************************************)
EXTENDS Integers, Sequences, FiniteSets

VARIABLES code, s, pc, result, error, sub, output, prev

vars == <<code, s, pc, result, error, sub, output, prev>>

\* None of Python; every optional value of the model is a record
None == [none |-> TRUE]

----------------------------------------------------------------------------
(* Bounds of the model. *)

\* longest digit string on either side of the R in the R-code inputs
MaxRDigits == 3
\* longest string of the small-alphabet inputs
MaxSmallLen == 4

----------------------------------------------------------------------------
(* Characters. *)

DigitChars == <<"0", "1", "2", "3", "4", "5", "6", "7", "8", "9">>

UpperChars == <<"A", "B", "C", "D", "E", "F", "G", "H", "I", "J", "K", "L", "M",
                "N", "O", "P", "Q", "R", "S", "T", "U", "V", "W", "X", "Y", "Z">>

LowerChars == <<"a", "b", "c", "d", "e", "f", "g", "h", "i", "j", "k", "l", "m",
                "n", "o", "p", "q", "r", "s", "t", "u", "v", "w", "x", "y", "z">>

Range(f) == {f[i] : i \in DOMAIN f}

Digit == Range(DigitChars)
Upper == Range(UpperChars)
Lower == Range(LowerChars)
Letter == Upper \cup Lower

\* str.isspace for the whitespace characters of the model: space and tab
IsSpace(c) == c \in {" ", "\t"}

\* \d of the regular expressions
IsDigit(c) == c \in Digit

\* [a-z] under (?i)
IsLetter(c) == c \in Letter

\* int() of one digit character
DigitVal(c) == (CHOOSE i \in 1..10 : DigitChars[i] = c) - 1

\* str.upper of one character
UpperChar(c) ==
    IF c \in Lower THEN UpperChars[CHOOSE i \in 1..26 : LowerChars[i] = c] ELSE c

\* str.swapcase of one character (an edit of the input, not part of decode)
SwapChar(c) ==
    IF c \in Lower THEN UpperChars[CHOOSE i \in 1..26 : LowerChars[i] = c]
    ELSE IF c \in Upper THEN LowerChars[CHOOSE i \in 1..26 : UpperChars[i] = c]
    ELSE c

----------------------------------------------------------------------------
(* String operations of decode(). *)

\* str.strip(): drop leading and trailing whitespace
strip(str) ==
    LET keep == {i \in 1..Len(str) : ~IsSpace(str[i])}
    IN  IF keep = {} THEN <<>>
        ELSE LET first == CHOOSE i \in keep : \A j \in keep : i <= j
                 last  == CHOOSE i \in keep : \A j \in keep : j <= i
             IN  SubSeq(str, first, last)

\* str.replace(" ", ""): drop every space character (tabs stay)
replace_space(str) == SelectSeq(str, LAMBDA c : c # " ")

\* str.upper()
upper(str) == [i \in 1..Len(str) |-> UpperChar(str[i])]

\* normalize() without the upper(): the case fold forgotten
normalize_NoUpper(str) == replace_space(strip(str))

\* int() of a string of decimal digits
RECURSIVE int(_)
int(str) ==
    IF str = <<>> THEN 0
    ELSE 10 * int(SubSeq(str, 1, Len(str) - 1)) + DigitVal(str[Len(str)])

\* str() of a natural number
RECURSIVE str_of(_)
str_of(n) ==
    IF n < 10 THEN <<DigitChars[n + 1]>>
    ELSE str_of(n \div 10) \o <<DigitChars[(n % 10) + 1]>>

AllDigits(str) == \A i \in 1..Len(str) : IsDigit(str[i])

\* line 62: s = code.strip().replace(" ", "").upper()
normalize(str) == upper(replace_space(strip(str)))

----------------------------------------------------------------------------
(* Floats as exact decimals n * 10^e. *)

\* number of decimal digits of a natural number (1 for 0)
RECURSIVE NumDigits(_)
NumDigits(n) == IF n < 10 THEN 1 ELSE 1 + NumDigits(n \div 10)

RECURSIVE Pow10(_)
Pow10(k) == IF k = 0 THEN 1 ELSE 10 * Pow10(k - 1)

\* normal form: no trailing zero in n, zero is [n |-> 0, e |-> 0]
RECURSIVE Norm(_)
Norm(v) ==
    IF v.n = 0 THEN [n |-> 0, e |-> 0]
    ELSE IF v.n % 10 = 0 THEN Norm([n |-> v.n \div 10, e |-> v.e + 1])
    ELSE v

Val(n, e) == Norm([n |-> n, e |-> e])

\* v * 10^k (multiplication or division by a power of ten)
Shift(v, k) == IF v.n = 0 THEN v ELSE [n |-> v.n, e |-> v.e + k]

\* integer * float
Times(i, v) == Val(i * v.n, v.e)

\* v >= 10^k, for v in normal form
GePow10(v, k) == v.n > 0 /\ NumDigits(v.n) - 1 + v.e >= k

\* v < 10^k, for v in normal form
LtPow10(v, k) == ~GePow10(v, k)

\* float() of "<digits>.<digits>"
float_of(str) ==
    LET dot  == CHOOSE i \in 1..Len(str) : str[i] = "."
        ip   == SubSeq(str, 1, dot - 1)
        fp   == SubSeq(str, dot + 1, Len(str))
        keep == {i \in 1..Len(fp) : fp[i] # "0"}
        last == IF keep = {} THEN 0 ELSE CHOOSE i \in keep : \A j \in keep : j <= i
        sig  == SubSeq(fp, 1, last)
    IN  Val(int(ip \o sig), -last)

----------------------------------------------------------------------------
(* The tables and patterns of decoder.py. *)

EIA96_BASES ==
    << 100, 102, 105, 107, 110, 113, 115, 118, 121, 124, 127, 130,
       133, 137, 140, 143, 147, 150, 154, 158, 162, 165, 169, 174,
       178, 182, 187, 191, 196, 200, 205, 210, 215, 221, 226, 232,
       237, 243, 249, 255, 261, 267, 274, 280, 287, 294, 301, 309,
       316, 324, 332, 340, 348, 357, 365, 374, 383, 392, 402, 412,
       422, 432, 442, 453, 464, 475, 487, 499, 511, 523, 536, 549,
       562, 576, 590, 604, 619, 634, 649, 665, 681, 698, 715, 732,
       750, 768, 787, 806, 825, 845, 866, 887, 909, 931, 953, 976 >>

EIA96_MULTIPLIERS ==
    [ Z |-> Val(1, -3),
      Y |-> Val(1, -2),
      R |-> Val(1, -2),
      X |-> Val(1, -1),
      S |-> Val(1, -1),
      A |-> Val(1, 0),
      B |-> Val(1, 1),
      H |-> Val(1, 1),
      C |-> Val(1, 2),
      D |-> Val(1, 3),
      E |-> Val(1, 4),
      F |-> Val(1, 5) ]

\* dict.get(key): the value, or None
get(dict, key) == IF key \in DOMAIN dict THEN dict[key] ELSE None

\* list[i] of Python: 0-based, a negative subscript counts from the end,
\* anything else raises IndexError
Subscript(list, i) ==
    IF 0 <= i /\ i < Len(list) THEN [ok |-> TRUE, value |-> list[i + 1]]
    ELSE IF -Len(list) <= i /\ i < 0 THEN [ok |-> TRUE, value |-> list[Len(list) + i + 1]]
    ELSE [ok |-> FALSE, value |-> 0]

\* (?i)^(\d*)r(\d*)$ : the groups, or None
R_CODE_RE(str) ==
    LET ks == {k \in 1..Len(str) :
                  /\ str[k] \in {"r", "R"}
                  /\ AllDigits(SubSeq(str, 1, k - 1))
                  /\ AllDigits(SubSeq(str, k + 1, Len(str)))}
    IN  IF ks = {} THEN None
        ELSE LET k == CHOOSE j \in ks : TRUE
             IN  [groups |-> <<SubSeq(str, 1, k - 1), SubSeq(str, k + 1, Len(str))>>]

\* (?i)^(\d{2})([a-z])$ : the groups, or None
EIA96_RE(str) ==
    IF Len(str) = 3 /\ IsDigit(str[1]) /\ IsDigit(str[2]) /\ IsLetter(str[3])
    THEN [groups |-> <<SubSeq(str, 1, 2), str[3]>>]
    ELSE None

\* ^(\d{3,4})$ : the group, or None
DIGIT_RE(str) ==
    IF Len(str) \in {3, 4} /\ AllDigits(str) THEN [groups |-> <<str>>] ELSE None

----------------------------------------------------------------------------
(* decode(), one operator per scheme. *)

DecodeResult(ohms, scheme) == [ohms |-> ohms, scheme |-> scheme]

\* raise ValueError(f"<text>{arg}")
ValueError(text, arg) == [type |-> "ValueError", text |-> text, arg |-> arg]

IndexError == [type |-> "IndexError", text |-> "list index out of range", arg |-> <<>>]

\* DecodeR() with the fraction passed through int(), which drops its leading zeros
DecodeR_FracAsInt(m) ==
    LET int_part  == IF m.groups[1] = <<>> THEN <<"0">> ELSE m.groups[1]
        frac_part == IF m.groups[2] = <<>> THEN <<"0">> ELSE m.groups[2]
        value     == float_of(str_of(int(int_part)) \o <<".">> \o str_of(int(frac_part)))
    IN  [result |-> [ohms |-> value, scheme |-> "R"], error |-> None, sub |-> <<>>]

\* lines 67-74: the R-as-decimal scheme.  int() and float() cannot fail on the
\* digit strings the pattern lets through, so the except branch is not taken.
DecodeR(m) ==
    LET int_part  == IF m.groups[1] = <<>> THEN <<"0">> ELSE m.groups[1]
        frac_part == IF m.groups[2] = <<>> THEN <<"0">> ELSE m.groups[2]
        value     == float_of(str_of(int(int_part)) \o <<".">> \o frac_part)
    IN  [result |-> DecodeResult(value, "R"), error |-> None, sub |-> <<>>]

\* the range check without its lower bound
IndexInRange_NoLower(idx) == idx <= 96

\* line 81: the range check of the EIA-96 index
IndexInRange(idx) == 1 <= idx /\ idx <= 96

\* lines 79-87: the EIA-96 scheme
DecodeEIA96(m) ==
    LET num_str == m.groups[1]
        letter  == m.groups[2]
        idx     == int(num_str)
        base    == Subscript(EIA96_BASES, idx - 1)
        mult    == get(EIA96_MULTIPLIERS, letter)
    IN  IF ~IndexInRange(idx)
        THEN [result |-> None, sub |-> <<>>,
              error |-> ValueError("EIA-96 index out of range: ", num_str)]
        ELSE IF ~base.ok
        THEN [result |-> None, sub |-> <<idx - 1>>, error |-> IndexError]
        ELSE IF mult = None
        THEN [result |-> None, sub |-> <<idx - 1>>,
              error |-> ValueError("unknown EIA-96 multiplier letter: ", <<letter>>)]
        ELSE [result |-> DecodeResult(Shift(Times(base.value, mult), -2), "EIA-96"),
              sub |-> <<idx - 1>>, error |-> None]

\* DecodeDigits() that takes two significand digits whatever the length
DecodeDigits_TwoSig(m) ==
    LET digits == m.groups[1]
        sig == int(SubSeq(digits, 1, 2))
        exp == int(<<digits[Len(digits)]>>)
        scheme == IF Len(digits) = 3 THEN "3-digit" ELSE "4-digit"
    IN  [result |-> [ohms |-> Val(sig, exp), scheme |-> scheme], error |-> None, sub |-> <<>>]

\* lines 92-100: the 3- or 4-digit scheme
DecodeDigits(m) ==
    LET digits == m.groups[1]
        sig == IF Len(digits) = 3 THEN int(SubSeq(digits, 1, 2))
               ELSE int(SubSeq(digits, 1, 3))
        exp == IF Len(digits) = 3 THEN int(<<digits[3]>>)
               ELSE int(<<digits[4]>>)
        scheme == IF Len(digits) = 3 THEN "3-digit" ELSE "4-digit"
    IN  [result |-> DecodeResult(Val(sig, exp), scheme), error |-> None, sub |-> <<>>]

----------------------------------------------------------------------------
(* format_ohms(). *)

RECURSIVE Zeros(_)
Zeros(k) == IF k <= 0 THEN <<>> ELSE <<"0">> \o Zeros(k - 1)

\* v rounded to p significant digits, as [n, e] with n of at most p digits.
\* tieUp settles an exact decimal tie: the double nearest to the decimal may
\* lie on either side of it.
RoundSig(v, p, tieUp) ==
    LET d == NumDigits(v.n)
    IN  IF d <= p THEN v
        ELSE LET drop == d - p
                 q    == v.n \div Pow10(drop)
                 r    == v.n % Pow10(drop)
                 half == 5 * Pow10(drop - 1)
                 up   == r > half \/ (r = half /\ tieUp)
             IN  Val(IF up THEN q + 1 ELSE q, v.e + drop)

\* two-digit exponent of the "g" format: e+03, e-05
ExpSuffix(x) ==
    LET a == IF x < 0 THEN -x ELSE x
    IN  <<"e", IF x < 0 THEN "-" ELSE "+">>
        \o (IF a < 10 THEN <<"0">> ELSE <<>>) \o str_of(a)

\* f"{v:.{p}g}": p significant digits, trailing zeros removed, exponent
\* notation when the decimal exponent x is < -4 or >= p
FormatG(v, p, tieUp) ==
    LET r  == RoundSig(v, p, tieUp)
        ds == str_of(r.n)
        x  == Len(ds) - 1 + r.e
    IN  IF r.n = 0 THEN <<"0">>
        ELSE IF x < -4 \/ x >= p
        THEN <<ds[1]>>
             \o (IF Len(ds) > 1 THEN <<".">> \o SubSeq(ds, 2, Len(ds)) ELSE <<>>)
             \o ExpSuffix(x)
        ELSE IF r.e >= 0 THEN ds \o Zeros(r.e)
        ELSE IF Len(ds) > -r.e
        THEN SubSeq(ds, 1, Len(ds) + r.e) \o <<".">> \o SubSeq(ds, Len(ds) + r.e + 1, Len(ds))
        ELSE <<"0", ".">> \o Zeros(-r.e - Len(ds)) \o ds

\* lines 113-118: the units, as (power of ten, suffix)
units ==
    << [factor |-> 6,  suffix |-> <<"M", "Ohm">>],
       [factor |-> 3,  suffix |-> <<"k", "Ohm">>],
       [factor |-> 0,  suffix |-> <<"Ohm">>],
       [factor |-> -3, suffix |-> <<"m", "Ohm">>] >>

\* lines 119-123: the first unit with ohms >= factor, else micro-ohms
SelectUnit(ohms) ==
    LET fits == {i \in 1..Len(units) : GePow10(ohms, units[i].factor)}
    IN  IF fits = {} THEN [factor |-> -6, suffix |-> <<"micro", "Ohm">>]
        ELSE units[CHOOSE i \in fits : \A j \in fits : i <= j]

\* format_ohms(ohms, precision); ohms < 0 raises ValueError
format_ohms(ohms, precision, tieUp) ==
    IF ohms.n < 0 THEN ValueError("ohms must be non-negative", <<>>)
    ELSE LET u == SelectUnit(ohms)
         IN  [value |-> FormatG(Shift(ohms, -u.factor), precision, tieUp) \o u.suffix]

----------------------------------------------------------------------------
(* Inputs. *)

\* the digits used on either side of the R in the R-code inputs
RDigit == {"0", "4", "9"}

\* the alphabet of the small inputs: digits, R and a multiplier letter in
\* both cases, a letter that is no multiplier, space and tab
SmallAlphabet == {"0", "9", "R", "r", "C", "c", "g", " ", "\t"}

StringsUpTo(alphabet, k) == UNION {[1..n -> alphabet] : n \in 0..k}

\* two digits and a letter of either case
EIAInputs == {<<a, b, l>> : a \in Digit, b \in Digit, l \in Letter}

\* three or four digits
DigitInputs ==
    {<<a, b, c>> : a \in Digit, b \in Digit, c \in Digit}
    \cup {<<a, b>> \o <<c, d>> : a \in Digit, b \in Digit, c \in Digit, d \in Digit}

\* digits, R or r, digits
RInputs ==
    {a \o <<r>> \o b : a \in StringsUpTo(RDigit, MaxRDigits),
                       b \in StringsUpTo(RDigit, MaxRDigits), r \in {"R", "r"}}

SmallInputs == StringsUpTo(SmallAlphabet, MaxSmallLen)

IsSmallInput(str) ==
    Len(str) <= MaxSmallLen /\ \A i \in 1..Len(str) : str[i] \in SmallAlphabet

Inputs == EIAInputs \cup DigitInputs \cup RInputs \cup SmallInputs

Insert(str, i, c) == SubSeq(str, 1, i) \o <<c>> \o SubSeq(str, i + 1, Len(str))

Remove(str, i) == SubSeq(str, 1, i - 1) \o SubSeq(str, i + 1, Len(str))

\* the other spellings of an input one edit away: a space added or removed
\* anywhere, a tab added or removed at either end, the case of one letter changed
Respellings(str) ==
    {Insert(str, i, " ") : i \in 0..Len(str)}
    \cup {<<"\t">> \o str, str \o <<"\t">>}
    \cup {Remove(str, i) : i \in {j \in 1..Len(str) : str[j] = " "}}
    \cup {Remove(str, i) : i \in {j \in {1, Len(str)} \cap (1..Len(str)) : str[j] = "\t"}}
    \cup {[str EXCEPT ![i] = SwapChar(str[i])] : i \in {j \in 1..Len(str) : str[j] \in Letter}}

----------------------------------------------------------------------------
(* The program: one call of decode(code), then main()'s print. *)

DefaultPrecision == 3

Init ==
    /\ code \in Inputs
    /\ s = <<>>
    /\ pc = "call"
    /\ result = None
    /\ error = None
    /\ sub = <<>>
    /\ output = None
    /\ prev = None

\* what a caller sees of a finished call: the result, or that it failed
Outcome ==
    IF error = None THEN [ok |-> TRUE, ohms |-> result.ohms, scheme |-> result.scheme]
    ELSE [ok |-> FALSE]

Return(r) ==
    /\ result' = r.result
    /\ error' = r.error
    /\ sub' = r.sub
    /\ pc' = IF r.error = None THEN "returned" ELSE "raised"

\* lines 59-62: the empty check on the stripped input, then normalization
Check ==
    /\ pc = "call"
    /\ IF strip(code) = <<>>
       THEN /\ error' = ValueError("code must be a non-empty string", <<>>)
            /\ pc' = "raised"
            /\ UNCHANGED s
       ELSE /\ s' = normalize(code)
            /\ pc' = "match_r"
            /\ UNCHANGED error
    /\ UNCHANGED <<code, result, sub, output, prev>>

\* lines 65-74
MatchR ==
    /\ pc = "match_r"
    /\ LET m == R_CODE_RE(s)
       IN  IF m # None THEN Return(DecodeR(m))
           ELSE pc' = "match_eia96" /\ UNCHANGED <<result, error, sub>>
    /\ UNCHANGED <<code, s, output, prev>>

\* lines 77-87
MatchEIA96 ==
    /\ pc = "match_eia96"
    /\ LET m == EIA96_RE(s)
       IN  IF m # None THEN Return(DecodeEIA96(m))
           ELSE pc' = "match_digits" /\ UNCHANGED <<result, error, sub>>
    /\ UNCHANGED <<code, s, output, prev>>

\* MatchDigits whose unrecognized-code error carries the normalized string
MatchDigits_CarriesNormalized ==
    /\ pc = "match_digits"
    /\ LET m == DIGIT_RE(s)
       IN  IF m # None THEN Return(DecodeDigits(m))
           ELSE Return([result |-> None, sub |-> <<>>,
                        error |-> ValueError("unrecognized SMD resistor code: ", s)])
    /\ UNCHANGED <<code, s, output, prev>>

\* lines 90-102
MatchDigits ==
    /\ pc = "match_digits"
    /\ LET m == DIGIT_RE(s)
       IN  IF m # None THEN Return(DecodeDigits(m))
           ELSE Return([result |-> None, sub |-> <<>>,
                        error |-> ValueError("unrecognized SMD resistor code: ", code)])
    /\ UNCHANGED <<code, s, output, prev>>

\* cli.py line 15: print the formatted value and the scheme, return 0
Report ==
    /\ pc = "returned"
    /\ \E tieUp \in BOOLEAN :
         LET f == format_ohms(result.ohms, DefaultPrecision, tieUp)
         IN  output' = IF "value" \in DOMAIN f
                       THEN [rc |-> 0, code |-> code, value |-> f.value,
                             scheme |-> result.scheme]
                       ELSE [rc |-> 1, message |-> f]
    /\ pc' = "exit"
    /\ UNCHANGED <<code, s, result, error, sub, prev>>

\* cli.py lines 16-18: print the error, return 1
ReportError ==
    /\ pc = "raised"
    /\ output' = [rc |-> 1, message |-> error]
    /\ pc' = "exit"
    /\ UNCHANGED <<code, s, result, error, sub, prev>>

\* the next call, on another spelling of the same input; the outcome of this
\* call is kept for comparison
Respell ==
    /\ pc = "exit"
    /\ \E c \in Respellings(code) :
         /\ IsSmallInput(c)
         /\ code' = c
    /\ prev' = Outcome
    /\ s' = <<>>
    /\ pc' = "call"
    /\ result' = None
    /\ error' = None
    /\ sub' = <<>>
    /\ output' = None

Next ==
    \/ Check
    \/ MatchR
    \/ MatchEIA96
    \/ MatchDigits
    \/ Report
    \/ ReportError
    \/ Respell

Spec == Init /\ [][Next]_vars

----------------------------------------------------------------------------
(* Properties. *)

\* decode() has finished, by returning or by raising
Finished == pc \in {"returned", "raised", "exit"}

Returned == Finished /\ error = None

Raised == Finished /\ error # None

\* the letters that are keys of the multiplier table
MultiplierLetters == DOMAIN EIA96_MULTIPLIERS

\* the index two digit characters spell
IndexOf(a, b) == 10 * DigitVal(a) + DigitVal(b)

\* two digits and a letter
IsTwoDigitsLetter(str) ==
    Len(str) = 3 /\ IsDigit(str[1]) /\ IsDigit(str[2]) /\ IsLetter(str[3])

\* C1: a code of two digits spelling an index in 1..96 and a letter that is a
\* key of the multiplier table decodes under the scheme "EIA-96" to
\* EIA96_BASES[idx-1] * multiplier / 100.
C1_Eia96Value ==
    (Finished /\ IsTwoDigitsLetter(code)
        /\ IndexOf(code[1], code[2]) \in 1..96 /\ code[3] \in MultiplierLetters)
    => /\ error = None
       /\ result.scheme = "EIA-96"
       /\ result.ohms = Val(EIA96_BASES[IndexOf(code[1], code[2])]
                               * EIA96_MULTIPLIERS[code[3]].n,
                            EIA96_MULTIPLIERS[code[3]].e - 2)

\* C2: a code of two digits and a letter of either case fails with ValueError
\* when the index is outside 1..96, whatever the letter, and when the letter
\* is no key of the multiplier table.
C2_Eia96Rejects ==
    (Finished /\ IsTwoDigitsLetter(code)
        /\ (IndexOf(code[1], code[2]) \notin 1..96
            \/ UpperChar(code[3]) \notin MultiplierLetters))
    => (error # None /\ error.type = "ValueError")

\* C3: a resistance of zero is displayed as "0" followed by the plain-ohm
\* unit, with no prefix.
C3_ZeroIsPlainOhm ==
    (pc = "exit" /\ error = None /\ result.ohms = Val(0, 0))
    => (output.rc = 0 /\ output.value = <<"0", "Ohm">>)

\* C4: three digits SSE decode to SS * 10^E under "3-digit" and four digits
\* SSSE to SSS * 10^E under "4-digit", for all digit values.
C4_FixedDigitValue ==
    /\ (Finished /\ Len(code) = 3 /\ AllDigits(code))
       => /\ error = None
          /\ result.scheme = "3-digit"
          /\ result.ohms = Val(10 * DigitVal(code[1]) + DigitVal(code[2]),
                               DigitVal(code[3]))
    /\ (Finished /\ Len(code) = 4 /\ AllDigits(code))
       => /\ error = None
          /\ result.scheme = "4-digit"
          /\ result.ohms = Val(100 * DigitVal(code[1]) + 10 * DigitVal(code[2])
                                  + DigitVal(code[3]),
                               DigitVal(code[4]))

C4_Witness ==
    /\ pc = "returned"
    /\ code = <<"0", "4", "7", "0">>
    /\ result = [ohms |-> [n |-> 47, e |-> 0], scheme |-> "4-digit"]

\* the positions of an R with only digits on both sides
RPositions(str) ==
    {k \in 1..Len(str) : /\ str[k] = "R"
                         /\ \A i \in 1..Len(str) : i # k => IsDigit(str[i])}

Carries(err, str) ==
    \E i \in 1..(Len(err.arg) - Len(str) + 1) :
        SubSeq(err.arg, i, i + Len(str) - 1) = str

\* C6 as stated: every ValueError of decode() carries the caller's original,
\* un-normalized code string in its message.
C6_EveryErrorCarriesCode == Raised => Carries(error, code)

\* C6 as amended: the unrecognized-code error carries the original code; the
\* index error carries the two index digits, the unknown-multiplier error the
\* upper-cased letter, and the empty-input error nothing of the input.
C6_WhatErrorsCarry ==
    Raised =>
        /\ error.type = "ValueError"
        /\ error.text \in {"code must be a non-empty string",
                           "EIA-96 index out of range: ",
                           "unknown EIA-96 multiplier letter: ",
                           "unrecognized SMD resistor code: "}
        /\ error.text = "unrecognized SMD resistor code: " => error.arg = code
        /\ error.text = "EIA-96 index out of range: "
           => /\ Len(error.arg) = 2 /\ AllDigits(error.arg)
              /\ IndexOf(error.arg[1], error.arg[2]) \notin 1..96
              /\ ~Carries(error, code)
        /\ error.text = "unknown EIA-96 multiplier letter: "
           => /\ Len(error.arg) = 1 /\ error.arg[1] \in Upper \ MultiplierLetters
              /\ ~Carries(error, code)
        /\ error.text = "code must be a non-empty string" => error.arg = <<>>

C6_Witness ==
    /\ pc = "raised"
    /\ error.text = "unrecognized SMD resistor code: "
    /\ code = <<" ", "9", "g", "\t">>
    /\ error.arg = code

\* C7: every result has ohms >= 0 and one of the four scheme labels; the base
\* table has 96 entries, each in 100..976, and is only read at the subscript
\* idx - 1 of an index idx in 1..96.
C7_ResultAndTable ==
    /\ Returned => /\ result.ohms.n >= 0
                   /\ result.scheme \in {"R", "EIA-96", "3-digit", "4-digit"}
    /\ Len(EIA96_BASES) = 96
    /\ \A i \in 1..Len(EIA96_BASES) : EIA96_BASES[i] \in 100..976
    /\ Len(sub) <= 1
    /\ \A i \in 1..Len(sub) :
          /\ sub[i] \in 0..95
          /\ sub[i] = IndexOf(s[1], s[2]) - 1
    /\ Raised => error.type # "IndexError"

C7_Witness ==
    /\ pc = "returned"
    /\ sub = <<95>>
    /\ result = [ohms |-> [n |-> 976, e |-> 0], scheme |-> "EIA-96"]

\* C8: an input spelled with other leading or trailing whitespace, other
\* interior spaces or another case of its letters has the same outcome, the
\* same ohms and scheme or a failure both times; an input that is empty after
\* trimming fails.
C8_SpellingInvariant ==
    /\ (Finished /\ prev # None) => Outcome = prev
    /\ (Finished /\ \A i \in 1..Len(code) : IsSpace(code[i])) => error # None

C8_Witness ==
    /\ pc = "returned"
    /\ code = <<"0", "9", " ", "c">>
    /\ prev = [ok |-> TRUE, ohms |-> [n |-> 121, e |-> 0], scheme |-> "EIA-96"]
    /\ result.ohms = prev.ohms

\* the patterns a normalized string matches
Matching(str) ==
    {p \in {"R", "EIA-96", "digits"} :
        \/ p = "R" /\ R_CODE_RE(str) # None
        \/ p = "EIA-96" /\ EIA96_RE(str) # None
        \/ p = "digits" /\ DIGIT_RE(str) # None}

\* C9: no normalized string matches more than one of the three patterns.
C9_PatternsDisjoint == Cardinality(Matching(s)) <= 1

\* the part of a formatted value before its unit suffix
NumericPart(text) ==
    LET unit == {i \in 1..Len(text) : text[i] \in {"M", "k", "m", "micro", "Ohm"}}
    IN  SubSeq(text, 1, (CHOOSE i \in unit : \A j \in unit : i <= j) - 1)

\* a numeral without exponent whose value v has 1 <= v < 1000
PlainBelowThousand(num) ==
    /\ \A i \in 1..Len(num) : num[i] \in Digit \cup {"."}
    /\ LET dots == {i \in 1..Len(num) : num[i] = "."}
           ip   == IF dots = {} THEN num
                   ELSE SubSeq(num, 1, (CHOOSE i \in dots : TRUE) - 1)
       IN  Cardinality(dots) <= 1 /\ ip # <<>> /\ int(ip) \in 1..999

\* C10: with the default precision, for 0.001 <= ohms < 10^9 the numeric part
\* of the formatted value is a plain numeral v, without exponent, 1 <= v < 1000.
C10_MantissaPlain ==
    (pc = "exit" /\ error = None /\ GePow10(result.ohms, -3) /\ LtPow10(result.ohms, 9))
    => (output.rc = 0 /\ PlainBelowThousand(NumericPart(output.value)))

====
